---- MODULE Spec2Model ----
(***************************************************************************)
(* Model of the Slack channel downloader: the transport client's paginated *)
(* history and user-directory fetches (client.py), the batch file download *)
(* (downloader.py), configuration (config.py) and the driver that chains   *)
(* them (main.py).  The remote platform, the HTTP file server and the file *)
(* system are the environment: every response is a nondeterministic choice.*)
(***************************************************************************)
EXTENDS Integers, Sequences, FiniteSets, TLC

\* ------------------------------------------------------------------ bounds
MaxPages == 4        \* history requests answered in a direct call
MaxUserPages == 2    \* users.list requests answered in a direct call
MaxFiles == 3        \* descriptors handed to download_files in a direct call
DrvMaxPages == 2     \* history requests answered in a driver run
DrvMaxUserPages == 2 \* users.list requests answered in a driver run
MaxMessages == 2     \* messages handed to extract_files_from_messages
MaxPieces == 3       \* pieces a text handed to replace_mentions_with_names is made of

\* ------------------------------------------------------- program constants
PageLimit == 1000    \* "limit" of every conversations.history request

\* ------------------------------------------------------------ Python values
None == "<None>"     \* Python's None where a string is expected
Absent == "<absent>" \* a key that is missing from a dict

\* bool(x) of an optional string: None, a missing key and "" are falsy
Truthy(x) == x \notin {None, Absent, ""}

\* an optional number is <<>> (None) or <<n>>; bool(0.0) is False
TruthyNum(o) == o # <<>> /\ o[1] # 0

\* ------------------------------------------------------------------- state
VARIABLES
  env,            \* environment variables read by Config.from_env
  config,         \* the Config object, once constructed
  pc,             \* position of download_channel_content
  outcome,        \* how the driver run ended
  auth_ret,       \* what validate_token returned or raised
  log,            \* trace of remote requests, callbacks and file writes
  dirs,           \* directories created so far
  disk,           \* files written so far
  \* get_channel_history frame
  h_args,         \* channel_id, oldest_date, newest_date
  all_messages,
  cursor,
  oldest_ts,
  newest_ts,
  hist_ret,       \* running / return value / raised exception
  served,         \* responses the transport gave to conversations.history
  \* get_users frame
  user_map,
  ucursor,
  users_ret,
  userved,        \* responses the transport gave to users.list
  \* driver locals
  messages,
  drv_user_map,
  files,
  files_downloaded,
  \* download_files frame
  d_dir,          \* self._download_dir
  d_files,
  d_i,
  downloaded,
  dl_ret,
  open_resp,      \* HTTP responses currently open
  dserved,        \* outcome of every download attempt
  \* extract_files_from_messages frame
  x_messages,
  x_file_types,
  x_ret,
  \* replace_mentions_with_names frame
  m_text,
  m_user_map,
  m_ret

histVars == <<h_args, all_messages, cursor, oldest_ts, newest_ts, hist_ret, served>>
usersVars == <<user_map, ucursor, users_ret, userved>>
drvVars == <<env, config, pc, outcome, auth_ret, messages, drv_user_map, files, files_downloaded>>
dlVars == <<d_dir, d_files, d_i, downloaded, dl_ret, open_resp, dserved>>
fsVars == <<dirs, disk>>
utilVars == <<x_messages, x_file_types, x_ret, m_text, m_user_map, m_ret>>
vars == <<log, histVars, usersVars, drvVars, dlVars, fsVars, utilVars>>

\* ----------------------------------------------------------------- helpers
RECURSIVE Flatten(_)
Flatten(ss) == IF ss = <<>> THEN <<>> ELSE Head(ss) \o Flatten(Tail(ss))

EventsOf(T) == SelectSeq(log, LAMBDA e : e.type \in T)

SeqsUpTo(S, n) == UNION {[1..k -> S] : k \in 0..n}

\* ------------------------------------------------------------------- utils
\* The dates of the model and the day number (days since 1970-01-01) that
\* strptime reads from each.
DayOf(date_str) ==
  CASE date_str = "1970-01-01" -> 0
    [] date_str = "2024-01-01" -> 19723
    [] date_str = "2024-02-01" -> 19754

\* convert_date_to_ts: local midnight of the date as a Unix timestamp
convert_date_to_ts(date_str, tz) ==
  IF ~Truthy(date_str) THEN <<>>
  ELSE <<DayOf(date_str) * 86400 - tz>>

\* ------------------------------------------------- remote platform (mock)
Meta(c) == <<[next_cursor |-> c]>>
NoMeta == <<>>
AllMetas == {NoMeta, Meta(Absent), Meta(""), Meta("c1"), Meta("c2")}
AllFlags == BOOLEAN \X AllMetas
HistErrors == {"missing_scope", "channel_not_found", "ratelimited"}

\* A page is given by the attachment lists of its messages; the platform
\* stamps the messages with consecutive send-times.
MkMessages(page, base) ==
  [k \in 1..Len(page) |-> [ts |-> base + k, files |-> page[k]]]

HistPage(msgs, hm, md) ==
  [ok |-> TRUE, error |-> "", messages |-> msgs, has_more |-> hm,
   response_metadata |-> md]
ApiError(code) ==
  [ok |-> FALSE, error |-> code, messages |-> <<>>, has_more |-> FALSE,
   response_metadata |-> NoMeta]

ServedMessages == Flatten([k \in 1..Len(served) |-> served[k].messages])

\* Flags: the pairs <<has_more, response_metadata>> a page may carry
HistResults(Pages, Flags, Errors) ==
  {HistPage(MkMessages(p, Len(ServedMessages)), fl[1], fl[2]) :
      p \in Pages, fl \in Flags}
  \cup {ApiError(c) : c \in Errors}

\* result["response_metadata"].get("next_cursor"), None when there is none
NextCursorOf(result) ==
  IF result.response_metadata = NoMeta THEN None
  ELSE IF result.response_metadata[1].next_cursor = Absent THEN None
       ELSE result.response_metadata[1].next_cursor

\* ------------------------------------------------------ SlackApiException
SlackApiException(code) == [cls |-> "SlackApiException", error_code |-> code]

Running == [kind |-> "running"]
Idle == [kind |-> "idle"]
Return(v) == [kind |-> "return", value |-> v]
Raise(e) == [kind |-> "raise", exc |-> e]

\* ----------------------------------------- SlackClient.get_channel_history
\* the request parameters of one loop iteration
HistParams ==
  [channel |-> h_args.channel_id,
   limit |-> PageLimit,
   cursor |-> IF Truthy(cursor) THEN <<cursor>> ELSE <<>>,
   oldest |-> IF TruthyNum(oldest_ts) THEN oldest_ts ELSE <<>>,
   latest |-> IF TruthyNum(newest_ts) THEN newest_ts ELSE <<>>]

\* a bug: the new page is put in front of the earlier ones
ExtendPrepend(all, msgs) == msgs \o all

\* all_messages.extend(messages)
Extend(all, msgs) == all \o msgs

\* a bug: the loop goes on whenever the page says "has more"
HistContinueFlagOnly(result) == result.has_more

\* a bug: the loop goes on whenever the page carries a token
HistContinueTokenOnly(result) ==
  /\ result.response_metadata # <<>>
  /\ result.response_metadata[1].next_cursor \notin {None, Absent, ""}

\* the continuation test at the end of a loop iteration
HistContinue(result) ==
  /\ result.has_more
  /\ result.response_metadata # NoMeta
  /\ Truthy(NextCursorOf(result))

\* a bug: the except clause hands back the pages fetched so far
HistOnErrorPartial(all, error) == Return(all)

\* the except clause: every branch raises SlackApiException(error_code=error)
HistOnError(all, error) ==
  CASE error = "missing_scope" -> Raise(SlackApiException(error))
    [] error = "channel_not_found" -> Raise(SlackApiException(error))
    [] OTHER -> Raise(SlackApiException(error))

\* the frame at entry of get_channel_history
HistEnter(channel_id, oldest_date, newest_date, tz) ==
  /\ h_args' = [channel_id |-> channel_id, oldest_date |-> oldest_date,
                newest_date |-> newest_date]
  /\ all_messages' = <<>>
  /\ cursor' = None
  /\ oldest_ts' = convert_date_to_ts(oldest_date, tz)
  /\ newest_ts' = convert_date_to_ts(newest_date, tz)
  /\ hist_ret' = Running
  /\ served' = <<>>

ProgressValuePageOnly(all, msgs) == Len(msgs)

\* on_progress(len(all_messages)), all being the list after the extend
ProgressValue(all, msgs) == Len(all)

\* one iteration of the while loop: request, response, and what follows it
HistoryPage(maxPages, Pages, Flags, Errors) ==
  /\ hist_ret.kind = "running"
  /\ Len(served) < maxPages
  /\ \E result \in HistResults(Pages, Flags, Errors) :
       LET req == [type |-> "conversations_history", arg |-> HistParams]
           all == Extend(all_messages, result.messages)
           progress == [type |-> "history_progress",
                        arg |-> ProgressValue(all, result.messages)]
       IN /\ served' = Append(served, result)
          /\ IF ~result.ok
             THEN /\ hist_ret' = HistOnError(all_messages, result.error)
                  /\ log' = Append(log, req)
                  /\ UNCHANGED <<all_messages, cursor>>
             ELSE IF result.messages = <<>>
             THEN /\ hist_ret' = Return(all_messages)
                  /\ log' = Append(log, req)
                  /\ UNCHANGED <<all_messages, cursor>>
             ELSE /\ all_messages' = all
                  /\ log' = log \o <<req, progress>>
                  /\ IF HistContinue(result)
                     THEN /\ cursor' = NextCursorOf(result)
                          /\ hist_ret' = hist_ret
                     ELSE /\ cursor' = cursor
                          /\ hist_ret' = Return(all)
  /\ UNCHANGED <<h_args, oldest_ts, newest_ts>>
  /\ UNCHANGED <<usersVars, drvVars, dlVars, fsVars>>
  /\ UNCHANGED utilVars

\* ------------------------------------------------- SlackClient.get_users
\* dict.get(key): None for a missing key
Get(v) == IF v = Absent THEN None ELSE v

User(id, real_name, profile, name) ==
  [id |-> id, real_name |-> real_name, profile |-> profile, name |-> name]
Profile(real_name, display_name) ==
  <<[real_name |-> real_name, display_name |-> display_name]>>
NoProfile == <<>>

\* user.get("profile", {}).get(key)
ProfileGet(user, key) ==
  IF user.profile = NoProfile THEN None
  ELSE IF key = "real_name" THEN Get(user.profile[1].real_name)
       ELSE Get(user.profile[1].display_name)

\* a or b: the first operand when it is truthy, else the second
Or(a, b) == IF Truthy(a) THEN a ELSE b

\* the name get_users stores for one directory entry
ResolveName(user) ==
  LET user_id == Get(user.id)
  IN Or(Get(user.real_name),
        Or(ProfileGet(user, "real_name"),
           Or(ProfileGet(user, "display_name"),
              IF user.name = Absent THEN user_id ELSE user.name)))

\* user_map[user_id] = real_name
MapPut(m, k, v) == [x \in DOMAIN m \cup {k} |-> IF x = k THEN v ELSE m[x]]

RECURSIVE AddUsers(_, _)
\* the for loop over one page's members
AddUsers(m, users) ==
  IF users = <<>> THEN m
  ELSE AddUsers(MapPut(m, Get(Head(users).id), ResolveName(Head(users))),
                Tail(users))

EmptyMap == [x \in {} |-> ""]

UsersPageOf(members, hm, md) ==
  [ok |-> TRUE, error |-> "", members |-> members, has_more |-> hm,
   response_metadata |-> md]
UsersError(code) ==
  [ok |-> FALSE, error |-> code, members |-> <<>>, has_more |-> FALSE,
   response_metadata |-> NoMeta]

UsersResults(Members, Flags, Errors) ==
  {UsersPageOf(m, fl[1], fl[2]) : m \in Members, fl \in Flags}
  \cup {UsersError(c) : c \in Errors}

UsersParams == [cursor |-> IF Truthy(ucursor) THEN <<ucursor>> ELSE <<>>]

\* the continuation test of get_users: the next cursor alone
UsersContinue(result) ==
  /\ result.response_metadata # NoMeta
  /\ Truthy(NextCursorOf(result))

UsersOnErrorPartial(m, error) == Return(m)

\* the except clause of get_users
UsersOnError(m, error) == Raise(SlackApiException(error))

UsersEnter ==
  /\ user_map' = EmptyMap
  /\ ucursor' = None
  /\ users_ret' = Running
  /\ userved' = <<>>

\* one iteration of the while loop of get_users
UsersPage(maxPages, Members, Flags, Errors) ==
  /\ users_ret.kind = "running"
  /\ Len(userved) < maxPages
  /\ \E result \in UsersResults(Members, Flags, Errors) :
       LET req == [type |-> "users_list", arg |-> UsersParams]
           m == AddUsers(user_map, result.members)
       IN /\ userved' = Append(userved, result)
          /\ log' = Append(log, req)
          /\ IF ~result.ok
             THEN /\ users_ret' = UsersOnError(user_map, result.error)
                  /\ UNCHANGED <<user_map, ucursor>>
             ELSE /\ user_map' = m
                  /\ IF UsersContinue(result)
                     THEN /\ ucursor' = NextCursorOf(result)
                          /\ users_ret' = users_ret
                     ELSE /\ ucursor' = ucursor
                          /\ users_ret' = Return(m)
  /\ UNCHANGED <<histVars, drvVars, dlVars, fsVars>>
  /\ UNCHANGED utilVars

\* ------------------------------------------------------------ HTTP headers
\* header values are sequences of characters
CtPdf == <<"a","p","p","/","p","d","f">>
CtHtml == <<"t","e","x","t","/","h","t","m","l",";"," ","c","h","a","r","s","e","t","=","u","t","f","-","8">>
CtHtmlUpper == <<"T","E","X","T","/","H","T","M","L">>
CtMixed == <<"T","e","x","t","/","H","t","m","l">>
CtText == <<"t","e","x","t","/","p","l","a","i","n">>
CtNone == <<>>       \* no content-type header: headers.get(..., "")
TextHtml == <<"t","e","x","t","/","h","t","m","l">>

LowerChar(c) ==
  CASE c = "T" -> "t" [] c = "E" -> "e" [] c = "X" -> "x" [] c = "H" -> "h"
    [] c = "M" -> "m" [] c = "L" -> "l" [] OTHER -> c

\* str.lower()
Lower(str) == [k \in 1..Len(str) |-> LowerChar(str[k])]

\* sub in str
Contains(str, sub) ==
  \E k \in 0..(Len(str) - Len(sub)) :
     \A j \in 1..Len(sub) : str[k + j] = sub[j]

\* --------------------------------------------- FileDownloader.download_file
DownloadError(msg) == [cls |-> "DownloadError", error_code |-> msg]
OtherError(cls) == [cls |-> cls, error_code |-> ""]

Descriptor(url, name, filetype) ==
  [url_private_download |-> url, name |-> name, filetype |-> filetype]

\* what the file server and the file system do in one attempt
HttpResponse(status, ctype) == [kind |-> "response", status |-> status, ctype |-> ctype]
HttpFailure == [kind |-> "conn_error", status |-> 0, ctype |-> CtNone]
NoHttp == [kind |-> "none", status |-> 0, ctype |-> CtNone]

RECURSIVE Digits(_)
\* str(n), as decimal digits
Digits(n) == IF n < 10 THEN <<n>> ELSE Append(Digits(n \div 10), n % 10)

\* str(file_number).zfill(4), as decimal digits: zeros are put in front of
\* a shorter number, a longer one is left as it is
ZFill4(n) ==
  LET ds == Digits(n)
  IN IF Len(ds) >= 4 THEN ds ELSE [k \in 1..(4 - Len(ds)) |-> 0] \o ds

\* self._download_dir / f"{prefix}-{filename}"
FilePath(dir, file_number, filename) ==
  [dir |-> dir, prefix |-> IF file_number = <<>> THEN <<>> ELSE ZFill4(file_number[1]),
   name |-> filename, ext |-> ""]

\* the status test of download_file
StatusOk(status) == status = 200

\* a bug: the header is searched without lowering it first
IsHtmlCaseSensitive(ctype) ==
  \E k \in 0..(Len(ctype) - Len(TextHtml)) :
     \A j \in 1..Len(TextHtml) : ctype[k + j] = TextHtml[j]

\* the content-type test of download_file
IsHtml(ctype) == Contains(Lower(ctype), TextHtml)

\* a bug: the file name is not checked before the request
MissingMetadataUrlOnly(url, filename) ==
  IF url \in {None, Absent, ""} THEN "no_url" ELSE ""

\* the two metadata tests at the head of download_file: which one fails
MissingMetadata(url, filename) ==
  IF ~Truthy(url) THEN "no_url"
  ELSE IF ~Truthy(filename) THEN "no_filename"
  ELSE ""

\* a bug: the response is closed by hand after the body, so an exception
\* inside the block leaves it open
ScopedLeakOnRaise(url, body, raised) ==
  IF raised THEN <<[type |-> "response_open", arg |-> url]>> \o body
  ELSE <<[type |-> "response_open", arg |-> url]>> \o body
       \o <<[type |-> "response_close", arg |-> url]>>

\* with requests.get(...) as response: the response is opened, the block
\* runs, and the response is closed however the block is left
Scoped(url, body, raised) ==
  <<[type |-> "response_open", arg |-> url]>> \o body
  \o <<[type |-> "response_close", arg |-> url]>>

DlResult(ret, events, written, http, io) ==
  [ret |-> ret, events |-> events, written |-> written,
   seen |-> [http |-> http, io |-> io]]

\* download_file on one descriptor, given what the server (http) and the
\* file system (io) do.  The result names the return value or exception,
\* the requests, response openings/closings and writes in order, the file
\* left on disk, and how much of the environment's choice was consumed.
DownloadFile(dir, file_info, file_number, http, io) ==
  LET url == Get(file_info.url_private_download)
      filename == Get(file_info.name)
      filepath == FilePath(dir, file_number, filename)
      missing == MissingMetadata(url, filename)
      get == [type |-> "http_get", arg |-> url]
      write == [type |-> "write_file", arg |-> filepath]
  IN IF missing # ""
     THEN DlResult(Raise(DownloadError(missing)), <<>>, <<>>, NoHttp, "none")
     ELSE IF http.kind = "conn_error"
     THEN DlResult(Raise(OtherError("RequestException")), <<get>>, <<>>, http, "none")
     ELSE IF ~StatusOk(http.status)
     THEN DlResult(Raise(DownloadError("status")),
                   <<get>> \o Scoped(url, <<>>, TRUE), <<>>, http, "none")
     ELSE IF IsHtml(http.ctype)
     THEN DlResult(Raise(DownloadError("html")),
                   <<get>> \o Scoped(url, <<>>, TRUE), <<>>, http, "none")
     ELSE IF io = "open_error"
     THEN DlResult(Raise(OtherError("OSError")),
                   <<get>> \o Scoped(url, <<>>, TRUE), <<>>, http, io)
     ELSE IF io = "stream_error"
     THEN DlResult(Raise(OtherError("ChunkedEncodingError")),
                   <<get>> \o Scoped(url, <<write>>, TRUE),
                   <<[path |-> filepath, content |-> "partial"]>>, http, io)
     ELSE DlResult(Return(filepath), <<get>> \o Scoped(url, <<write>>, FALSE),
                   <<[path |-> filepath, content |-> "body"]>>, http, "ok")

\* -------------------------------------------- FileDownloader.download_files
\* a bug: the except clause names an exception download_file never raises
CaughtNothing(exc) == FALSE

\* the except clause of the batch loop: which exceptions it catches
Caught(exc) == exc.cls = "DownloadError"

\* a bug: the files are numbered by the count of successes so far
FileNumberBySuccesses(i, done) == <<done>>

\* file_number passed to download_file for the item at 0-based position i
FileNumber(i, done) == <<i>>

\* file_info.get("name", "unknown")
NameOf(file_info) == IF file_info.name = Absent THEN "unknown" ELSE file_info.name

DiskPut(d, written) ==
  IF written = <<>> THEN d ELSE MapPut(d, written[1].path, written[1].content)

\* FileDownloader.__init__ followed by the entry of download_files
DownloadEnter(dir, fs) ==
  /\ d_dir' = dir
  /\ d_files' = fs
  /\ d_i' = 0
  /\ downloaded' = <<>>
  /\ dl_ret' = IF fs = <<>> THEN Return(<<>>) ELSE Running
  /\ open_resp' = 0
  /\ dserved' = <<>>

\* one iteration of the for loop of download_files
DownloadOne(Https, Ios) ==
  /\ dl_ret.kind = "running"
  /\ d_i < Len(d_files)
  /\ \E http \in Https, io \in Ios :
       LET file_info == d_files[d_i + 1]
           filename == NameOf(file_info)
           total == Len(d_files)
           r == DownloadFile(d_dir, file_info,
                             FileNumber(d_i, Len(downloaded)), http, io)
           progress == [type |-> "download_progress",
                        arg |-> <<filename, d_i + 1, total>>]
           error == [type |-> "download_error", arg |-> filename]
           got == IF r.ret.kind = "return" THEN Append(downloaded, r.ret.value)
                  ELSE downloaded
       IN /\ dserved' = Append(dserved, [file_info |-> file_info, ret |-> r.ret,
                                          seen |-> r.seen])
          /\ disk' = DiskPut(disk, r.written)
          /\ downloaded' = got
          /\ d_i' = d_i + 1
          /\ open_resp' = open_resp
               + Len(SelectSeq(r.events, LAMBDA e : e.type = "response_open"))
               - Len(SelectSeq(r.events, LAMBDA e : e.type = "response_close"))
          /\ IF r.ret.kind = "return"
             THEN /\ log' = log \o <<progress>> \o r.events
                  /\ dl_ret' = IF d_i + 1 = total THEN Return(got) ELSE dl_ret
             ELSE IF Caught(r.ret.exc)
             THEN /\ log' = log \o <<progress>> \o r.events \o <<error>>
                  /\ dl_ret' = IF d_i + 1 = total THEN Return(got) ELSE dl_ret
             ELSE /\ log' = log \o <<progress>> \o r.events
                  /\ dl_ret' = Raise(r.ret.exc)
  /\ UNCHANGED <<d_dir, d_files, dirs>>
  /\ UNCHANGED <<histVars, usersVars, drvVars>>
  /\ UNCHANGED utilVars

\* ----------------------------------------- extract_files_from_messages
ExtractIgnoringCase(msgs, file_types) ==
  LET all_files == Flatten([k \in 1..Len(msgs) |-> msgs[k].files])
      low(t) == IF t = "PDF" THEN "pdf" ELSE t
      types == {low(file_types[k]) : k \in 1..Len(file_types)}
  IN IF file_types # <<>>
     THEN SelectSeq(all_files, LAMBDA f : low(Get(f.filetype)) \in types)
     ELSE all_files

\* file_types is <<>> for None / empty
extract_files_from_messages(msgs, file_types) ==
  LET all_files == Flatten([k \in 1..Len(msgs) |-> msgs[k].files])
      types == {file_types[k] : k \in 1..Len(file_types)}
  IN IF file_types # <<>>
     THEN SelectSeq(all_files, LAMBDA f : Get(f.filetype) \in types)
     ELSE all_files

\* ------------------------------------------------------------------ Config
DownloadDir == "./slack_files"
MessagesDir == "./slack_messages"

\* str.lower() of the values DOWNLOAD_FILES takes in the model
LowerWord(w) == CASE w = "TRUE" -> "true" [] w = "True" -> "true" [] OTHER -> w

\* str.strip() of the items FILE_TYPES takes in the model
Strip(w) == CASE w = " pdf" -> "pdf" [] w = " " -> "" [] OTHER -> w

\* _parse_file_types, on the value already split at the commas
parse_file_types(items) ==
  LET kept == SelectSeq(items, LAMBDA ft : Strip(ft) # "")
  IN [k \in 1..Len(kept) |-> Strip(kept[k])]

\* os.getenv(name, default)
GetEnv(v, default) == IF v = Absent THEN default ELSE v

\* Config.from_env: the arguments handed to the constructor
FromEnv(e) ==
  [slack_bot_token |-> GetEnv(e.SLACK_BOT_TOKEN, ""),
   channel_id |-> GetEnv(e.CHANNEL_ID, ""),
   download_dir |-> DownloadDir,
   messages_dir |-> MessagesDir,
   download_files |-> (LowerWord(GetEnv(e.DOWNLOAD_FILES, "true")) = "true"),
   file_types |-> parse_file_types(e.FILE_TYPES),
   oldest_date |-> Or(Get(e.OLDEST_DATE), None),
   newest_date |-> Or(Get(e.NEWEST_DATE), None)]

NoConfig == [slack_bot_token |-> "", channel_id |-> "", download_dir |-> "",
             messages_dir |-> "", download_files |-> FALSE, file_types |-> <<>>,
             oldest_date |-> None, newest_date |-> None]

\* a bug: the directories are created before the fields are validated
PostInitMkdirFirst(cfg, ds) ==
  [ok |-> cfg.slack_bot_token \notin {None, Absent, ""}
          /\ cfg.channel_id \notin {None, Absent, ""},
   error |-> "", dirs |-> ds \cup {cfg.download_dir, cfg.messages_dir}]

\* Config.__post_init__: ValueError, or the directories that exist afterwards
PostInit(cfg, ds) ==
  IF ~Truthy(cfg.slack_bot_token)
  THEN [ok |-> FALSE, error |-> "SLACK_BOT_TOKEN is required", dirs |-> ds]
  ELSE IF ~Truthy(cfg.channel_id)
  THEN [ok |-> FALSE, error |-> "CHANNEL_ID is required", dirs |-> ds]
  ELSE [ok |-> TRUE, error |-> "",
        dirs |-> ds \cup {cfg.download_dir, cfg.messages_dir}]

\* --------------------------------------------------------------- exporters
ExportPath(dir, channel_id, ext) ==
  [dir |-> dir, prefix |-> <<>>, name |-> channel_id, ext |-> ext]

\* --------------------------------------------- download_channel_content
\* a bug: a failed history fetch is treated like a finished one
AfterHistoryPcIgnoreError(ret) ==
  IF ret.kind = "return" /\ ret.value = <<>> THEN "done" ELSE "users"

\* a bug: the exports are written without waiting for the user directory
AfterHistoryPcSkipUsers(ret) ==
  IF ret.kind = "raise" THEN "done"
  ELSE IF ret.value = <<>> THEN "done"
  ELSE "save_json"

\* a bug: an empty history is exported like any other
AfterHistoryPcIgnoreEmpty(ret) == IF ret.kind = "raise" THEN "done" ELSE "users"

\* where the driver goes once get_channel_history has returned or raised
AfterHistoryPc(ret) ==
  IF ret.kind = "raise" THEN "done"
  ELSE IF ret.value = <<>> THEN "done"
  ELSE "users"

\* a bug: a failed directory fetch ends the run
AfterUsersPcAbort(ret) == IF ret.kind = "raise" THEN "done" ELSE "save_json"

\* where the driver goes once get_users has returned or raised
AfterUsersPc(ret) == "save_json"

\* where the driver goes after both exports, given the extracted files
AfterExportPc(download_flag, fs) ==
  IF download_flag /\ fs # <<>> THEN "download" ELSE "done"

LoadConfig ==
  /\ pc = "start"
  /\ LET cfg == FromEnv(env)
         r == PostInit(cfg, dirs)
     IN /\ dirs' = r.dirs
        /\ IF r.ok
           THEN /\ config' = cfg
                /\ pc' = "validate"
                /\ outcome' = outcome
           ELSE /\ config' = config
                /\ pc' = "done"
                /\ outcome' = "config_error"
  /\ UNCHANGED <<log, disk, env, auth_ret, messages, drv_user_map, files, files_downloaded>>
  /\ UNCHANGED <<histVars, usersVars, dlVars>>
  /\ UNCHANGED utilVars

AuthResults == {[ok |-> TRUE, error |-> ""], [ok |-> FALSE, error |-> "invalid_auth"],
                [ok |-> FALSE, error |-> "token_revoked"]}

\* SlackClient.validate_token, given the answer of auth.test
validate_token(result) ==
  IF result.ok THEN Return("auth_info")
  ELSE Raise(SlackApiException(result.error))

\* where the driver goes after validate_token
AfterValidatePc(ret) == IF ret.kind = "return" THEN "history" ELSE "done"

ValidateToken ==
  /\ pc = "validate"
  /\ \E result \in AuthResults :
       /\ log' = Append(log, [type |-> "auth_test", arg |-> config.slack_bot_token])
       /\ auth_ret' = validate_token(result)
       /\ pc' = AfterValidatePc(validate_token(result))
       /\ IF pc' = "history"
          THEN /\ HistEnter(config.channel_id, config.oldest_date,
                            config.newest_date, env.tz)
               /\ outcome' = outcome
          ELSE /\ outcome' = "auth_failed"
               /\ UNCHANGED histVars
  /\ UNCHANGED <<env, config, messages, drv_user_map, files, files_downloaded>>
  /\ UNCHANGED <<usersVars, dlVars, fsVars>>
  /\ UNCHANGED utilVars

AfterHistory ==
  /\ pc = "history"
  /\ hist_ret.kind \in {"return", "raise"}
  /\ pc' = AfterHistoryPc(hist_ret)
  /\ messages' = IF hist_ret.kind = "return" THEN hist_ret.value ELSE all_messages
  /\ IF pc' = "users"
     THEN /\ UsersEnter
          /\ outcome' = outcome
     ELSE /\ outcome' = IF hist_ret.kind = "raise" THEN "history_failed"
                        ELSE "no_messages"
          /\ UNCHANGED usersVars
  /\ UNCHANGED <<log, env, config, auth_ret, drv_user_map, files, files_downloaded>>
  /\ UNCHANGED <<histVars, dlVars, fsVars>>
  /\ UNCHANGED utilVars

AfterUsers ==
  /\ pc = "users"
  /\ users_ret.kind \in {"return", "raise"}
  /\ pc' = AfterUsersPc(users_ret)
  /\ drv_user_map' = IF users_ret.kind = "return" THEN users_ret.value ELSE EmptyMap
  /\ outcome' = IF pc' = "done" THEN "users_failed" ELSE outcome
  /\ UNCHANGED <<log, env, config, auth_ret, messages, files, files_downloaded>>
  /\ UNCHANGED <<histVars, usersVars, dlVars, fsVars>>
  /\ UNCHANGED utilVars

SaveJson ==
  /\ pc = "save_json"
  /\ LET path == ExportPath(config.messages_dir, config.channel_id, "json")
     IN /\ dirs' = dirs \cup {config.messages_dir}
        /\ disk' = MapPut(disk, path, "json")
        /\ log' = Append(log, [type |-> "write_json", arg |-> path])
  /\ pc' = "save_excel"
  /\ UNCHANGED <<env, config, auth_ret, outcome, messages, drv_user_map, files, files_downloaded>>
  /\ UNCHANGED <<histVars, usersVars, dlVars>>
  /\ UNCHANGED utilVars

SaveExcel ==
  /\ pc = "save_excel"
  /\ LET path == ExportPath(config.messages_dir, config.channel_id, "xlsx")
         fs == IF config.download_files
               THEN extract_files_from_messages(messages, config.file_types)
               ELSE <<>>
     IN /\ disk' = MapPut(disk, path, "xlsx")
        /\ log' = Append(log, [type |-> "write_excel", arg |-> path])
        /\ files' = fs
        /\ pc' = AfterExportPc(config.download_files, fs)
        /\ IF pc' = "download"
           THEN /\ dirs' = dirs \cup {config.messages_dir, config.download_dir}
                /\ DownloadEnter(config.download_dir, fs)
                /\ outcome' = outcome
           ELSE /\ dirs' = dirs \cup {config.messages_dir}
                /\ outcome' = "ok"
                /\ UNCHANGED dlVars
  /\ UNCHANGED <<env, config, auth_ret, messages, drv_user_map, files_downloaded>>
  /\ UNCHANGED <<histVars, usersVars>>
  /\ UNCHANGED utilVars

AfterDownload ==
  /\ pc = "download"
  /\ dl_ret.kind \in {"return", "raise"}
  /\ pc' = "done"
  /\ files_downloaded' = IF dl_ret.kind = "return" THEN dl_ret.value ELSE <<>>
  /\ outcome' = IF dl_ret.kind = "return" THEN "ok" ELSE "crash"
  /\ UNCHANGED <<log, env, config, auth_ret, messages, drv_user_map, files>>
  /\ UNCHANGED <<histVars, usersVars, dlVars, fsVars>>
  /\ UNCHANGED utilVars

\* ------------------------------------------------------- inputs of the model
\* attachment descriptors: two good ones sharing a file name, one without
\* a download URL, one without a file name
FileA == Descriptor("https://files/a", "report.pdf", "pdf")
FileB == Descriptor("https://files/b", "report.pdf", "PDF")
FileNoUrl == Descriptor(Absent, "photo.png", "png")
FileNoName == Descriptor("https://files/d", "", "pdf")
FileEmptyUrl == Descriptor("", Absent, "pdf")
DescPool == {FileA, FileB, FileNoUrl, FileNoName, FileEmptyUrl}

Https == {HttpResponse(200, CtPdf), HttpResponse(200, CtHtml),
          HttpResponse(200, CtHtmlUpper), HttpResponse(200, CtMixed),
          HttpResponse(404, CtPdf),
          HttpResponse(206, CtPdf), HttpFailure}
Ios == {"ok", "open_error", "stream_error"}

\* directory entries
UserAlice == User("U1", "Alice", NoProfile, "alice")
UserBob == User("U2", Absent, Profile("", "Bobby"), "bob")
UserIdOnly == User("U3", "", Profile(Absent, Absent), Absent)
\* an entry whose handle is present and empty
UserEmptyName == User("U4", Absent, NoProfile, "")
UserPool == {UserAlice, UserBob, UserIdOnly, UserEmptyName}
UsersErrors == {"missing_scope", "ratelimited"}

\* history pages of a direct call, none of the messages carrying attachments
PageOfSize(n) == [k \in 1..n |-> <<>>]
CallPages == {PageOfSize(0), PageOfSize(1), PageOfSize(2)}
\* the page sizes of the documented example
ExamplePages == {PageOfSize(0), PageOfSize(1), PageOfSize(437), PageOfSize(PageLimit)}
ExampleFlags == BOOLEAN \X {NoMeta, Meta(""), Meta("c1")}
ExampleHistArgs == {<<"C1", None, None, 0>>}
CallHistArgs ==
  {<<"C1", None, None, 0>>, <<"C1", "1970-01-01", "1970-01-01", 0>>,
   <<"C2", "2024-01-01", "2024-02-01", 3600>>}

\* driver runs: one message per page at most
DrvPages == {<<>>, << <<>> >>, << <<FileA>> >>, << <<FileB, FileNoUrl>> >>}
DrvHistFlags == {<<TRUE, Meta("c1")>>, <<TRUE, NoMeta>>, <<FALSE, Meta("c1")>>}
DrvUsersFlags == {<<FALSE, Meta("c1")>>, <<FALSE, NoMeta>>, <<TRUE, NoMeta>>}
DrvHistErrors == {"channel_not_found"}
DrvMembers == {<<>>, <<UserAlice>>}
DrvUsersErrors == {"ratelimited"}
DrvHttps == {HttpResponse(200, CtText), HttpResponse(200, CtHtml), HttpFailure}
DrvIos == {"ok", "open_error"}
Environ(token, channel, flag, types, oldest, newest, tz) ==
  [SLACK_BOT_TOKEN |-> token, CHANNEL_ID |-> channel, DOWNLOAD_FILES |-> flag,
   FILE_TYPES |-> types, OLDEST_DATE |-> oldest, NEWEST_DATE |-> newest, tz |-> tz]
DrvEnvs ==
  {Environ(t, c, f, ft, Absent, Absent, 0) :
      t \in {Absent, "", "xoxb-1"}, c \in {Absent, "", "C1"},
      f \in {Absent, "false"}, ft \in {<<>>, <<" pdf", " ">>}}
  \cup {Environ("xoxb-1", "C1", "TRUE", <<>>, "2024-01-01", "", 3600)}

\* ------------------------------------------------------------ specifications
FramesIdle ==
  /\ h_args = [channel_id |-> "", oldest_date |-> None, newest_date |-> None]
  /\ all_messages = <<>>
  /\ cursor = None
  /\ oldest_ts = <<>>
  /\ newest_ts = <<>>
  /\ hist_ret = Idle
  /\ served = <<>>
  /\ user_map = EmptyMap
  /\ ucursor = None
  /\ users_ret = Idle
  /\ userved = <<>>
  /\ d_dir = ""
  /\ d_files = <<>>
  /\ d_i = 0
  /\ downloaded = <<>>
  /\ dl_ret = Idle
  /\ open_resp = 0
  /\ dserved = <<>>
  /\ messages = <<>>
  /\ drv_user_map = EmptyMap
  /\ files = <<>>
  /\ files_downloaded = <<>>
  /\ config = NoConfig
  /\ outcome = "running"
  /\ auth_ret = Idle
  /\ log = <<>>
  /\ dirs = {}
  /\ disk = EmptyMap
  /\ x_messages = <<>>
  /\ x_file_types = <<>>
  /\ x_ret = Idle
  /\ m_text = <<>>
  /\ m_user_map = EmptyMap
  /\ m_ret = Idle

\* a run of the driver, download_channel_content
Init ==
  /\ pc = "start"
  /\ env \in DrvEnvs
  /\ FramesIdle

Next ==
  \/ LoadConfig
  \/ ValidateToken
  \/ HistoryPage(DrvMaxPages, DrvPages, DrvHistFlags, DrvHistErrors)
  \/ AfterHistory
  \/ UsersPage(DrvMaxUserPages, DrvMembers, DrvUsersFlags, DrvUsersErrors)
  \/ AfterUsers
  \/ SaveJson
  \/ SaveExcel
  \/ DownloadOne(DrvHttps, DrvIos)
  \/ AfterDownload

Spec == Init /\ [][Next]_vars

\* a direct call of one method of the client or of the downloader
CallHistory(Args) ==
  /\ pc = "call"
  /\ \E a \in Args : HistEnter(a[1], a[2], a[3], a[4])
  /\ pc' = "get_channel_history"
  /\ UNCHANGED <<log, env, config, outcome, auth_ret, messages, drv_user_map, files, files_downloaded>>
  /\ UNCHANGED <<usersVars, dlVars, fsVars>>
  /\ UNCHANGED utilVars

CallUsers ==
  /\ pc = "call"
  /\ UsersEnter
  /\ pc' = "get_users"
  /\ UNCHANGED <<log, env, config, outcome, auth_ret, messages, drv_user_map, files, files_downloaded>>
  /\ UNCHANGED <<histVars, dlVars, fsVars>>
  /\ UNCHANGED utilVars

CallDownloadFiles ==
  /\ pc = "call"
  /\ \E fs \in SeqsUpTo(DescPool, MaxFiles) : DownloadEnter(DownloadDir, fs)
  /\ dirs' = dirs \cup {DownloadDir}
  /\ pc' = "download_files"
  /\ UNCHANGED <<log, disk, env, config, outcome, auth_ret, messages, drv_user_map, files, files_downloaded>>
  /\ UNCHANGED <<histVars, usersVars>>
  /\ UNCHANGED utilVars

InitCall ==
  /\ pc = "call"
  /\ env = Environ(Absent, Absent, Absent, <<>>, Absent, Absent, 0)
  /\ FramesIdle

NextCall ==
  \/ CallHistory(CallHistArgs)
  \/ HistoryPage(MaxPages, CallPages, AllFlags, HistErrors)
  \/ CallUsers
  \/ UsersPage(MaxUserPages, SeqsUpTo(UserPool, 1), AllFlags, UsersErrors)
  \/ CallDownloadFiles
  \/ DownloadOne(Https, Ios)

SpecCall == InitCall /\ [][NextCall]_vars

\* get_channel_history on the page sizes of the documented example
NextExample ==
  \/ CallHistory(ExampleHistArgs)
  \/ HistoryPage(MaxPages, ExamplePages, ExampleFlags, HistErrors)

SpecExample == InitCall /\ [][NextExample]_vars

\* --------------------------------------- utils.replace_mentions_with_names
\* texts, ids and names are sequences of one-character strings
IdChar(c) ==
  c \in {"A", "B", "C", "D", "E", "F", "G", "H", "I", "J", "K", "L", "M",
         "N", "O", "P", "Q", "R", "S", "T", "U", "V", "W", "X", "Y", "Z",
         "0", "1", "2", "3", "4", "5", "6", "7", "8", "9"}

RECURSIVE IdRun(_)
\* the length of the longest run of [A-Z0-9] at the head of s
IdRun(s) == IF s # <<>> /\ IdChar(Head(s)) THEN 1 + IdRun(Tail(s)) ELSE 0

Drop(s, n) == SubSeq(s, n + 1, Len(s))

\* the group that r"<@([A-Z0-9]+)>" captures when it matches at the head
\* of s, <<>> when it does not match there
MentionAt(s) ==
  IF Len(s) >= 4 /\ s[1] = "<" /\ s[2] = "@"
  THEN LET n == IdRun(Drop(s, 2))
       IN IF n >= 1 /\ Len(s) >= n + 3 /\ s[n + 3] = ">"
          THEN SubSeq(s, 3, n + 2)
          ELSE <<>>
  ELSE <<>>

RECURSIVE FindAll(_)
\* re.findall: the captured ids of the non-overlapping matches, left to right
FindAll(s) ==
  IF s = <<>> THEN <<>>
  ELSE LET id == MentionAt(s)
       IN IF id # <<>> THEN <<id>> \o FindAll(Drop(s, Len(id) + 3))
          ELSE FindAll(Tail(s))

StartsWith(s, old) == Len(s) >= Len(old) /\ SubSeq(s, 1, Len(old)) = old

RECURSIVE StrReplace(_, _, _)
\* str.replace(old, new) for a non-empty old: every non-overlapping
\* occurrence, left to right
StrReplace(s, old, new) ==
  IF s = <<>> THEN <<>>
  ELSE IF StartsWith(s, old)
       THEN new \o StrReplace(Drop(s, Len(old)), old, new)
       ELSE <<Head(s)>> \o StrReplace(Tail(s), old, new)

\* f"<@{user_id}>" and f"@{real_name}"
MentionOf(user_id) == <<"<", "@">> \o user_id \o <<">">>
AtName(real_name) == <<"@">> \o real_name

RECURSIVE ReplaceLoop(_, _, _)
\* the for loop over the ids found: each replace works on the text the
\* earlier ones left
ReplaceLoop(text, mentions, names) ==
  IF mentions = <<>> THEN text
  ELSE LET user_id == Head(mentions)
           replaced ==
             IF user_id \in DOMAIN names
             THEN StrReplace(text, MentionOf(user_id), AtName(names[user_id]))
             ELSE text
       IN ReplaceLoop(replaced, Tail(mentions), names)

replace_mentions_with_names(text, names) ==
  ReplaceLoop(text, FindAll(text), names)

\* a direct call of one of the pure functions
FileNoType == Descriptor("https://files/e", "notes", Absent)
AttachLists ==
  {<<>>, <<FileA>>, <<FileB, FileNoName>>, <<FileNoName, FileA>>,
   <<FileNoUrl, FileA, FileB>>, <<FileNoType>>}
ExtractTypes == {<<>>, <<"pdf">>, <<"PDF">>, <<"png", "pdf">>}

CallExtract ==
  /\ pc = "call"
  /\ \E page \in SeqsUpTo(AttachLists, MaxMessages), types \in ExtractTypes :
       /\ x_messages' = MkMessages(page, 0)
       /\ x_file_types' = types
       /\ x_ret' = Return(extract_files_from_messages(MkMessages(page, 0), types))
  /\ pc' = "extract_files_from_messages"
  /\ UNCHANGED <<log, env, config, outcome, auth_ret, messages, drv_user_map, files, files_downloaded>>
  /\ UNCHANGED <<histVars, usersVars, dlVars, fsVars>>
  /\ UNCHANGED <<m_text, m_user_map, m_ret>>

\* ids, names and the pieces texts are made of
IdU123 == <<"U", "1", "2", "3">>
IdU2 == <<"U", "2">>
IdU999 == <<"U", "9", "9", "9">>
Alice == <<"A", "l", "i", "c", "e">>
Bob == <<"B", "o", "b">>
Pieces ==
  {MentionOf(IdU123), MentionOf(IdU2), MentionOf(IdU999),
   <<" ", "h", "i", " ">>,
   <<"<", "@", "u", "2", ">">>,            \* lower case: not a mention
   <<"<", "@", "U", "2">>}                 \* not closed: not a mention
UserMaps ==
  {EmptyMap,
   [id \in {IdU123} |-> Alice],
   [id \in {IdU123, IdU2} |-> IF id = IdU123 THEN Alice ELSE Bob],
   [id \in {IdU123, IdU2} |-> IF id = IdU123 THEN MentionOf(IdU2) ELSE Bob],
   [id \in {IdU2} |-> <<"B">> \o MentionOf(IdU2)]}

CallReplaceMentions ==
  /\ pc = "call"
  /\ \E ps \in SeqsUpTo(Pieces, MaxPieces), um \in UserMaps :
       /\ m_text' = Flatten(ps)
       /\ m_user_map' = um
       /\ m_ret' = Return(replace_mentions_with_names(Flatten(ps), um))
  /\ pc' = "replace_mentions_with_names"
  /\ UNCHANGED <<log, env, config, outcome, auth_ret, messages, drv_user_map, files, files_downloaded>>
  /\ UNCHANGED <<histVars, usersVars, dlVars, fsVars>>
  /\ UNCHANGED <<x_messages, x_file_types, x_ret>>

NextUtils ==
  \/ CallExtract
  \/ CallReplaceMentions

SpecUtils == InitCall /\ [][NextUtils]_vars

\* ======================================================= claims, C1 .. C10
HistRequests == EventsOf({"conversations_history"})
UsersRequests == EventsOf({"users_list"})
HasToken(result) == Truthy(NextCursorOf(result))
EmptyPage(result) == result.ok /\ result.messages = <<>>
PageSizes == [k \in 1..Len(served) |-> Len(served[k].messages)]

\* C1: get_channel_history returns the concatenation, in arrival order, of
\* the pages served up to the first empty page, and no request follows an
\* empty page; pages of sizes 1000, 1000, 437, 0 (has-more and a cursor on
\* all but the last) give 2437 messages after 4 requests.
C1_Concatenation ==
  /\ hist_ret.kind = "return" =>
       /\ hist_ret.value = ServedMessages
       /\ \A i \in 1..Len(hist_ret.value) : hist_ret.value[i].ts = i
  /\ \A k \in 1..Len(served) : EmptyPage(served[k]) =>
       /\ k = Len(served)
       /\ hist_ret = Return(Flatten([j \in 1..(k - 1) |-> served[j].messages]))
  /\ Len(HistRequests) = Len(served)
  /\ (/\ PageSizes = <<1000, 1000, 437, 0>>
      /\ \A k \in 1..3 : served[k].has_more /\ HasToken(served[k])
      /\ served[4].ok)
     => /\ hist_ret.kind = "return"
        /\ Len(hist_ret.value) = 2437
        /\ Len(HistRequests) = 4

C1_Witness ==
  /\ PageSizes = <<1000, 1000, 437, 0>>
  /\ served[4].ok
  /\ hist_ret.kind = "return"
  /\ Len(hist_ret.value) = 2437

\* a page that says "has more" but carries no continuation token
MalformedPage(result) ==
  result.ok /\ result.messages # <<>> /\ result.has_more /\ ~HasToken(result)

\* C2: a page that reports "has more" without a continuation token ends
\* the pagination: no further request, and the call returns, without
\* raising, the messages of all pages up to and including that page.
C2_MalformedTerminates ==
  \A k \in 1..Len(served) : MalformedPage(served[k]) =>
     /\ k = Len(served)
     /\ Len(HistRequests) = k
     /\ hist_ret = Return(ServedMessages)

C2_Witness ==
  /\ Len(served) = 3
  /\ MalformedPage(served[3])
  /\ hist_ret.kind = "return"
  /\ Len(hist_ret.value) > Len(served[3].messages)

\* C3 as stated: in both loops a further page is requested only after a
\* response with a truthy "has more" flag and a non-empty token.
C3_BothLoopsNeedFlagAndToken ==
  /\ \A k \in 1..(Len(served) - 1) : served[k].has_more /\ HasToken(served[k])
  /\ \A k \in 1..(Len(userved) - 1) : userved[k].has_more /\ HasToken(userved[k])

\* C3 amended: get_channel_history requests a further page only after a
\* response with both a truthy "has more" flag and a non-empty token (one
\* without the other ends the loop); get_users never looks at the flag: it
\* requests a further page exactly after a response with a non-empty token.
C3_ContinuationConditions ==
  /\ \A k \in 1..(Len(served) - 1) : served[k].has_more /\ HasToken(served[k])
  /\ \A k \in 1..Len(served) :
       (served[k].ok /\ ~(served[k].has_more /\ HasToken(served[k])))
       => (k = Len(served) /\ hist_ret.kind = "return")
  /\ \A k \in 1..(Len(userved) - 1) : HasToken(userved[k])
  /\ \A k \in 1..Len(userved) :
       /\ (userved[k].ok /\ ~HasToken(userved[k]))
          => (k = Len(userved) /\ users_ret.kind = "return")
       /\ (userved[k].ok /\ HasToken(userved[k]) /\ k = Len(userved))
          => users_ret.kind = "running"

C3_Witness ==
  /\ Len(served) = 2
  /\ ~served[2].has_more /\ HasToken(served[2]) /\ served[2].messages # <<>>
  /\ hist_ret.kind = "return"
  /\ Len(userved) = 2
  /\ ~userved[1].has_more /\ HasToken(userved[1])

\* C4: when the remote call for a history page fails, no further request
\* is issued and the call raises SlackApiException carrying the remote
\* error code; nothing of the pages fetched before is returned.
C4_ErrorAborts ==
  /\ \A k \in 1..Len(served) : ~served[k].ok =>
       /\ k = Len(served)
       /\ Len(HistRequests) = k
       /\ hist_ret = Raise(SlackApiException(served[k].error))
  /\ hist_ret.kind = "raise" => ~served[Len(served)].ok
  /\ hist_ret.kind = "return" => \A k \in 1..Len(served) : served[k].ok

C4_Witness ==
  /\ Len(served) = 3
  /\ ~served[3].ok
  /\ served[3].error = "ratelimited"
  /\ all_messages # <<>>
  /\ hist_ret.kind = "raise"

AttemptOk(a) == a.ret.kind = "return"
AttemptDownloadError(a) == a.ret.kind = "raise" /\ a.ret.exc.cls = "DownloadError"
AttemptFailed(a) == a.ret.kind = "raise"
SuccessPaths ==
  LET oks == SelectSeq(dserved, AttemptOk)
  IN [k \in 1..Len(oks) |-> oks[k].ret.value]
FailedNames ==
  LET bad == SelectSeq(dserved, AttemptFailed)
  IN [k \in 1..Len(bad) |-> NameOf(bad[k].file_info)]
ErrorCalls ==
  LET evs == EventsOf({"download_error"})
  IN [k \in 1..Len(evs) |-> evs[k].arg]
\* the URLs requested so far, and the URLs of the attempts that got as far
\* as the request
RequestedUrls ==
  LET evs == EventsOf({"http_get"})
  IN [k \in 1..Len(evs) |-> evs[k].arg]
AttemptedUrls ==
  LET net == SelectSeq(dserved, LAMBDA a : a.seen.http.kind # "none")
  IN [k \in 1..Len(net) |-> net[k].file_info.url_private_download]

\* C5: when every failing download raises DownloadError, download_files
\* attempts every descriptor once, in input order, returns the paths of the
\* successful ones in attempt order, and calls on_error once per failure.
C5_BatchIsolation ==
  (\A k \in 1..Len(dserved) : AttemptOk(dserved[k]) \/ AttemptDownloadError(dserved[k]))
  => /\ dl_ret.kind # "raise"
     /\ Len(dserved) <= Len(d_files)
     /\ \A k \in 1..Len(dserved) : dserved[k].file_info = d_files[k]
     /\ RequestedUrls = AttemptedUrls
     /\ downloaded = SuccessPaths
     /\ ErrorCalls = FailedNames
     /\ dl_ret.kind = "return" =>
          /\ Len(dserved) = Len(d_files)
          /\ dl_ret.value = SuccessPaths
     /\ (dl_ret.kind # "idle" /\ Len(dserved) = Len(d_files)) => dl_ret.kind = "return"

C5_Witness ==
  /\ pc = "download_files"
  /\ Len(d_files) = 3
  /\ dl_ret.kind = "return"
  /\ AttemptOk(dserved[1]) /\ AttemptDownloadError(dserved[2]) /\ AttemptOk(dserved[3])
  /\ dl_ret.value = <<dserved[1].ret.value, dserved[3].ret.value>>
  /\ Len(ErrorCalls) = 1

\* C6: however download_file fails for one item, download_files goes on to
\* the remaining items and returns normally; no failure propagates out.
C6_NoFailurePropagates ==
  /\ dl_ret.kind # "raise"
  /\ \A k \in 1..Len(dserved) :
       (AttemptFailed(dserved[k]) /\ k < Len(d_files)) =>
          (Len(dserved) > k \/ dl_ret.kind = "running")

ExportEvents == EventsOf({"write_json", "write_excel"})
DownloadRequests == EventsOf({"http_get"})
JsonWritten == ExportPath(MessagesDir, config.channel_id, "json") \in DOMAIN disk
ExcelWritten == ExportPath(MessagesDir, config.channel_id, "xlsx") \in DOMAIN disk

\* C7 as stated: a failed user-directory fetch ends the run at once, with
\* no export file written and no download request issued.
C7_UsersFailureTerminates ==
  users_ret.kind = "raise" =>
     /\ ExportEvents = <<>>
     /\ DownloadRequests = <<>>
     /\ pc \in {"users", "done"}

\* C7 amended: a failed user-directory fetch (SlackApiException) does not
\* end the run: the driver goes on with an empty user map, writes both
\* export files and then downloads the extracted files as usual.
C7_UsersFailureContinues ==
  users_ret.kind = "raise" =>
     /\ ~userved[Len(userved)].ok
     /\ pc # "users" => drv_user_map = EmptyMap
     /\ pc \in {"save_excel", "download", "done"} => JsonWritten
     /\ pc \in {"download", "done"} => ExcelWritten
     /\ pc = "done" =>
          /\ outcome \in {"ok", "crash"}
          /\ (config.download_files
              /\ extract_files_from_messages(messages, config.file_types) # <<>>)
             => EventsOf({"download_progress"}) # <<>>

C7_Witness ==
  /\ users_ret.kind = "raise"
  /\ pc = "done"
  /\ JsonWritten /\ ExcelWritten
  /\ DownloadRequests # <<>>
  /\ files_downloaded # <<>>

LaterStageEvents ==
  EventsOf({"users_list", "write_json", "write_excel", "download_progress",
            "http_get", "write_file"})

\* C8: when token validation fails, or the history fetch fails on any page,
\* the run ends with no later stage: no further history or user-directory
\* request, no export file, no download request.
C8_FatalErrorsStopTheRun ==
  /\ auth_ret.kind = "raise" =>
       /\ Len(log) = 1 /\ log[1].type = "auth_test"
       /\ disk = EmptyMap
       /\ hist_ret = Idle /\ users_ret = Idle /\ dl_ret = Idle
       /\ pc = "done" /\ outcome = "auth_failed"
  /\ hist_ret.kind = "raise" =>
       /\ Len(HistRequests) = Len(served)
       /\ LaterStageEvents = <<>>
       /\ disk = EmptyMap
       /\ users_ret = Idle /\ dl_ret = Idle
       /\ pc \in {"history", "done"}
       /\ pc = "done" => outcome = "history_failed"

C8_Witness ==
  /\ hist_ret.kind = "raise"
  /\ Len(served) = 2
  /\ all_messages # <<>>
  /\ pc = "done"

StageOf(type) ==
  CASE type = "auth_test" -> 1
    [] type \in {"conversations_history", "history_progress"} -> 2
    [] type = "users_list" -> 3
    [] type = "write_json" -> 4
    [] type = "write_excel" -> 5
    [] OTHER -> 6

HasStage(n) == \E i \in 1..Len(log) : StageOf(log[i].type) = n

\* C9: the stages of a run occur in the order validate, history, user
\* directory, exports, extraction, downloads, and none starts before the
\* one before it has ended.
C9_StageOrder ==
  /\ \A i \in 1..(Len(log) - 1) : StageOf(log[i].type) <= StageOf(log[i + 1].type)
  /\ HasStage(2) => auth_ret.kind = "return"
  /\ HasStage(3) => (hist_ret.kind = "return" /\ Len(HistRequests) = Len(served))
  /\ (HasStage(4) \/ HasStage(5)) => users_ret.kind \in {"return", "raise"}
  /\ (HasStage(6) \/ files # <<>> \/ dl_ret # Idle) =>
       /\ HasStage(4) /\ HasStage(5)
       /\ JsonWritten /\ ExcelWritten
       /\ Len(UsersRequests) = Len(userved)

C9_Witness ==
  /\ pc = "done"
  /\ outcome = "ok"
  /\ Len(served) = 2
  /\ Len(userved) = 2
  /\ Len(DownloadRequests) = 2

ConfigInvalid ==
  \/ env.SLACK_BOT_TOKEN \in {Absent, ""}
  \/ env.CHANNEL_ID \in {Absent, ""}

\* C10: with an empty token or channel id the configuration fails before
\* any network call: no remote request is issued in the run and the failed
\* construction has created no directory.
C10_ConfigErrorBeforeNetwork ==
  ConfigInvalid =>
     /\ log = <<>>
     /\ dirs = {}
     /\ disk = EmptyMap
     /\ auth_ret = Idle /\ hist_ret = Idle /\ users_ret = Idle /\ dl_ret = Idle
     /\ pc \in {"start", "done"}
     /\ pc = "done" => outcome = "config_error"

C10_Witness ==
  /\ env.SLACK_BOT_TOKEN = "xoxb-1"
  /\ env.CHANNEL_ID = ""
  /\ pc = "done"
  /\ outcome = "config_error"

\* ====================================================== claims, C11 .. C20
\* the path an attempt at 1-based position k writes to
AttemptPath(k) == FilePath(d_dir, <<k - 1>>, Get(dserved[k].file_info.name))
WriteEvents == EventsOf({"write_file"})
\* content types that declare an HTML page, in any letter case
HtmlTypes == {CtHtml, CtHtmlUpper, CtMixed}
GotResponse(a) == a.seen.http.kind = "response"
Rejected(a) ==
  GotResponse(a) /\ (a.seen.http.status # 200 \/ a.seen.http.ctype \in HtmlTypes)
ReachedWrite(a) == a.seen.io \in {"ok", "stream_error"}

\* C11: download_file succeeds only on status 200 with a content type that
\* does not declare HTML (in any letter case); every other response raises
\* DownloadError and leaves no file on disk.
C11_OnlyGoodResponsesSucceed ==
  /\ \A k \in 1..Len(dserved) :
       /\ AttemptOk(dserved[k]) =>
            /\ GotResponse(dserved[k])
            /\ dserved[k].seen.http.status = 200
            /\ dserved[k].seen.http.ctype \notin HtmlTypes
       /\ Rejected(dserved[k]) =>
            /\ AttemptDownloadError(dserved[k])
            /\ AttemptPath(k) \notin DOMAIN disk
            /\ \A i \in 1..Len(WriteEvents) : WriteEvents[i].arg # AttemptPath(k)
  /\ Len(WriteEvents) = Len(SelectSeq(dserved, ReachedWrite))
  /\ Cardinality(DOMAIN disk) <= Len(SelectSeq(dserved, ReachedWrite))

C11_Witness ==
  /\ pc = "download_files"
  /\ Len(dserved) = 3
  /\ dserved[1].seen.http = HttpResponse(200, CtHtml)
  /\ dserved[2].seen.http = HttpResponse(200, CtHtmlUpper)
  /\ dserved[3].seen.http = HttpResponse(206, CtPdf)
  /\ \A k \in 1..3 : AttemptDownloadError(dserved[k])
  /\ disk = EmptyMap

MetadataMissing(f) ==
  \/ f.url_private_download \in {Absent, ""}
  \/ f.name \in {Absent, ""}
ValidAttempts == SelectSeq(dserved, LAMBDA a : ~MetadataMissing(a.file_info))

\* C12: a descriptor without a download URL or without a file name makes
\* download_file raise DownloadError before any request and without
\* touching the disk.
C12_MissingMetadataFailsEarly ==
  /\ \A k \in 1..Len(dserved) : MetadataMissing(dserved[k].file_info) =>
       /\ AttemptDownloadError(dserved[k])
       /\ dserved[k].seen.http = NoHttp
       /\ \A i \in 1..Len(WriteEvents) : WriteEvents[i].arg.prefix # ZFill4(k - 1)
       /\ \A pth \in DOMAIN disk : pth.prefix # ZFill4(k - 1)
  /\ RequestedUrls = [k \in 1..Len(ValidAttempts) |->
                         ValidAttempts[k].file_info.url_private_download]
  /\ Len(EventsOf({"response_open"})) <= Len(ValidAttempts)

C12_Witness ==
  /\ pc = "download_files"
  /\ d_files = <<FileNoUrl, FileNoName, FileEmptyUrl>>
  /\ dl_ret.kind = "return"
  /\ dl_ret.value = <<>>
  /\ Len(ErrorCalls) = 3
  /\ RequestedUrls = <<>>
  /\ disk = EmptyMap

\* responses open after the first i events of the trace
OpenAfter(i) ==
  Cardinality({j \in 1..i : log[j].type = "response_open"})
  - Cardinality({j \in 1..i : log[j].type = "response_close"})

\* C13: every response download_file opens is closed on every exit path:
\* at most one response is open at any point of a batch and none is open
\* once download_file has returned or raised.
C13_ResponsesAreClosed ==
  /\ open_resp = 0
  /\ OpenAfter(Len(log)) = 0
  /\ \A i \in 1..Len(log) :
       /\ OpenAfter(i) \in {0, 1}
       /\ log[i].type \in {"http_get", "download_progress", "download_error"}
            => OpenAfter(i) = 0
  /\ Len(EventsOf({"response_open"})) = Len(SelectSeq(dserved, GotResponse))

C13_Witness ==
  /\ pc = "download_files"
  /\ Len(dserved) = 3
  /\ AttemptOk(dserved[1])
  /\ dserved[2].seen.http = HttpResponse(404, CtPdf)
  /\ dserved[3].seen.io = "stream_error"
  /\ dl_ret.kind = "raise"
  /\ Len(EventsOf({"response_close"})) = 3

\* C14: within a batch every descriptor is numbered by its position in the
\* input list, whatever failed before it, so no two descriptors are
\* written to the same path, even with the same file name.
C14_PositionalNumbering ==
  /\ \A k \in 1..Len(dserved) : ReachedWrite(dserved[k]) =>
       /\ AttemptPath(k) \in DOMAIN disk
       /\ AttemptOk(dserved[k]) => dserved[k].ret.value = AttemptPath(k)
       /\ AttemptPath(k).prefix = ZFill4(k - 1)
  /\ \A i, j \in 1..Len(WriteEvents) : i # j => WriteEvents[i].arg # WriteEvents[j].arg
  /\ \A i, j \in 1..Len(downloaded) : i # j => downloaded[i] # downloaded[j]
  /\ Cardinality(DOMAIN disk) = Len(WriteEvents)

C14_Witness ==
  /\ pc = "download_files"
  /\ d_files = <<FileA, FileA, FileB>>
  /\ Len(dserved) = 3
  /\ AttemptDownloadError(dserved[1])
  /\ dl_ret.kind = "return"
  /\ Len(dl_ret.value) = 2
  /\ dl_ret.value[1].name = dl_ret.value[2].name
  /\ dl_ret.value[1].prefix = <<0, 0, 0, 1>>
  /\ dl_ret.value[2].prefix = <<0, 0, 0, 2>>

\* the candidates of an entry in the documented priority order
NameCandidates(u) ==
  <<Get(u.real_name), ProfileGet(u, "real_name"),
    ProfileGet(u, "display_name"), Get(u.name), Get(u.id)>>
NonEmptyName(x) == x \notin {None, Absent, ""}
FirstNonEmpty(cands) ==
  LET idx == {k \in 1..Len(cands) : NonEmptyName(cands[k])}
  IN IF idx = {} THEN None
     ELSE cands[CHOOSE k \in idx : \A j \in idx : k <= j]
ServedUsers == Flatten([k \in 1..Len(userved) |-> userved[k].members])

\* C15: the mapping get_users returns sends the id of every served entry
\* to the first non-empty value among real_name, profile.real_name,
\* profile.display_name, name and the id itself, so no key maps to an
\* empty name.
C15_NamesByPriority ==
  users_ret.kind = "return" =>
    /\ \A k \in 1..Len(ServedUsers) :
         LET u == ServedUsers[k]
         IN users_ret.value[Get(u.id)] = FirstNonEmpty(NameCandidates(u))
    /\ \A id \in DOMAIN users_ret.value : NonEmptyName(users_ret.value[id])

ServedIds == {Get(ServedUsers[k].id) : k \in 1..Len(ServedUsers)}

\* C16: get_users sends its first request without a cursor and every later
\* one with the token of the previous response, goes on exactly until the
\* first response without a token, and then returns a mapping whose keys
\* are the ids of all entries served; a failed request ends the call with
\* SlackApiException carrying the remote error code, and nothing is returned.
C16_UsersPagination ==
  /\ Len(UsersRequests) = Len(userved)
  /\ \A k \in 1..Len(userved) :
       /\ UsersRequests[k].arg.cursor =
            IF k = 1 THEN <<>> ELSE <<NextCursorOf(userved[k - 1])>>
       /\ k < Len(userved) => (userved[k].ok /\ HasToken(userved[k]))
  /\ users_ret.kind = "return" =>
       /\ Len(userved) > 0
       /\ userved[Len(userved)].ok /\ ~HasToken(userved[Len(userved)])
       /\ DOMAIN users_ret.value = ServedIds
  /\ users_ret.kind = "raise" =>
       /\ Len(userved) > 0
       /\ ~userved[Len(userved)].ok
       /\ users_ret.exc = SlackApiException(userved[Len(userved)].error)
  /\ users_ret.kind = "running" =>
       \A k \in 1..Len(userved) : userved[k].ok /\ HasToken(userved[k])

\* two pages with different entries, then a return with both keys
C16_Witness ==
  /\ Len(userved) = 2
  /\ users_ret.kind = "return"
  /\ userved[1].members # <<>> /\ userved[2].members # <<>>
  /\ Cardinality(DOMAIN users_ret.value) = 2
  /\ UsersRequests[2].arg.cursor = <<"c1">>

\* a failure on the second page, after entries were already collected
C16_WitnessError ==
  /\ Len(userved) = 2
  /\ userved[1].members # <<>>
  /\ users_ret = Raise(SlackApiException("ratelimited"))

\* the attachments of the messages by position <<message, attachment>>
AttachPositions ==
  {p \in (1..Len(x_messages)) \X (1..3) : p[2] <= Len(x_messages[p[1]].files)}
AttachAt(p) == x_messages[p[1]].files[p[2]]
Wanted(p) ==
  \/ x_file_types = <<>>
  \/ \E k \in 1..Len(x_file_types) : AttachAt(p).filetype = x_file_types[k]
Before(p, q) == p[1] < q[1] \/ (p[1] = q[1] /\ p[2] <= q[2])
RankOf(p) == Cardinality({q \in AttachPositions : Wanted(q) /\ Before(q, p)})

\* C17: extract_files_from_messages returns the attachments in message
\* order and then attachment order; with a non-empty file_types exactly the
\* attachments whose type tag is, letter for letter, a member of it, in the
\* same relative order, and with an empty file_types all of them.
C17_ExtractInOrder ==
  x_ret.kind = "return" =>
    /\ Len(x_ret.value) = Cardinality({p \in AttachPositions : Wanted(p)})
    /\ \A p \in AttachPositions :
         Wanted(p) => x_ret.value[RankOf(p)] = AttachAt(p)

\* two messages, the filter "pdf": the "PDF" and "png" attachments go, and
\* the two that stay keep their order across the messages
C17_Witness ==
  /\ x_ret.kind = "return"
  /\ x_file_types = <<"pdf">>
  /\ Len(x_messages) = 2
  /\ x_messages[1].files = <<FileB, FileNoName>>
  /\ x_messages[2].files = <<FileNoUrl, FileA, FileB>>
  /\ x_ret.value = <<FileNoName, FileA>>

RECURSIVE SinglePass(_, _)
\* the text with every mention of a known id replaced once, read off the
\* original text from left to right
SinglePass(s, names) ==
  IF s = <<>> THEN <<>>
  ELSE LET id == MentionAt(s)
       IN IF id = <<>> THEN <<Head(s)>> \o SinglePass(Tail(s), names)
          ELSE (IF id \in DOMAIN names THEN AtName(names[id]) ELSE MentionOf(id))
               \o SinglePass(Drop(s, Len(id) + 3), names)

\* C18: replace_mentions_with_names returns the text in which every mention
\* <@ID> of an id of the user map stands replaced by "@" and the name, and
\* every other mention and all other text is as it was; a name put in is
\* not rewritten again.
C18_MentionsReplacedOnce ==
  m_ret.kind = "return" => m_ret.value = SinglePass(m_text, m_user_map)

DateSupplied(d) == d \notin {None, Absent, ""}

\* C19: the first conversations.history request carries no cursor and each
\* later one the token of the previous response; every request names the
\* channel of the call and asks for at most 1000 messages; if an oldest
\* (newest) date was supplied, every request carries its converted bound.
C19_RequestsCarryCursorAndBounds ==
  /\ Len(HistRequests) = Len(served)
  /\ \A k \in 1..Len(HistRequests) :
       LET p == HistRequests[k].arg
       IN /\ p.cursor = IF k = 1 THEN <<>> ELSE <<NextCursorOf(served[k - 1])>>
          /\ p.channel = h_args.channel_id
          /\ p.limit <= 1000
          /\ DateSupplied(h_args.oldest_date) =>
               (oldest_ts # <<>> /\ p.oldest = oldest_ts)
          /\ DateSupplied(h_args.newest_date) =>
               (newest_ts # <<>> /\ p.latest = newest_ts)

RECURSIVE TotalUpTo(_)
\* the number of messages on the first k pages served
TotalUpTo(k) == IF k = 0 THEN 0 ELSE TotalUpTo(k - 1) + PageSizes[k]
HistTrace == EventsOf({"conversations_history", "history_progress"})
\* the trace to expect: every request, followed by one progress report
\* with the running total when its page holds messages
ExpectedSteps ==
  Flatten([k \in 1..Len(served) |->
     IF served[k].ok /\ served[k].messages # <<>>
     THEN <<[type |-> "conversations_history", n |-> 0],
            [type |-> "history_progress", n |-> TotalUpTo(k)]>>
     ELSE <<[type |-> "conversations_history", n |-> 0]>>])
ActualSteps ==
  [i \in 1..Len(HistTrace) |->
     [type |-> HistTrace[i].type,
      n |-> IF HistTrace[i].type = "history_progress" THEN HistTrace[i].arg
            ELSE 0]]
Reported ==
  LET ps == EventsOf({"history_progress"})
  IN [i \in 1..Len(ps) |-> ps[i].arg]

\* C20: on_progress is called once for every page that holds messages,
\* after the page was appended and before the next request, with the number
\* of messages collected so far; the values strictly increase, the empty
\* last page is not reported, and after a return the last value is the
\* length of the returned list.
C20_ProgressPerPage ==
  /\ ActualSteps = ExpectedSteps
  /\ \A i \in 1..(Len(Reported) - 1) : Reported[i] < Reported[i + 1]
  /\ hist_ret.kind = "return" =>
       IF Reported = <<>> THEN hist_ret.value = <<>>
       ELSE Reported[Len(Reported)] = Len(hist_ret.value)

\* pages of 2, 1 and 0 messages: reports 2 and 3, none for the empty page
C20_Witness ==
  /\ hist_ret.kind = "return"
  /\ PageSizes = <<2, 1, 0>>
  /\ Reported = <<2, 3>>
  /\ HistTrace[Len(HistTrace)].type = "conversations_history"

\* ====================================================== claims, C21 .. C22
ProgressCalls ==
  LET evs == EventsOf({"download_progress"})
  IN [k \in 1..Len(evs) |-> evs[k].arg]
ExpectedProgress(n) ==
  [k \in 1..n |-> <<NameOf(d_files[k]), k, Len(d_files)>>]
BatchTypes ==
  LET evs == EventsOf({"download_progress", "http_get", "download_error"})
  IN [k \in 1..Len(evs) |-> evs[k].type]
\* per attempt: the progress call, then the request if one was made, then
\* the error call if DownloadError was raised
ExpectedBatchTypes ==
  Flatten([k \in 1..Len(dserved) |->
     <<"download_progress">>
     \o (IF dserved[k].seen.http.kind # "none" THEN <<"http_get">> ELSE <<>>)
     \o (IF AttemptDownloadError(dserved[k]) THEN <<"download_error">> ELSE <<>>)])
BatchEnded == dl_ret.kind \in {"return", "raise"}

\* the part that holds in every run: one progress call per descriptor
\* attempted, in input order and ahead of the attempt, and every on_error
\* between the progress call of its descriptor and the next progress call
ProgressPerAttempt ==
  /\ ProgressCalls = ExpectedProgress(Len(dserved))
  /\ BatchTypes = ExpectedBatchTypes
  /\ ErrorCalls = [k \in 1..Len(ErrorCalls) |->
                     NameOf(SelectSeq(dserved, AttemptDownloadError)[k].file_info)]
  /\ dl_ret.kind = "return" => Len(dserved) = Len(d_files)

\* C21: download_files calls on_progress(name, position, total) once for
\* every descriptor of its input, before the attempt on that descriptor,
\* with total the length of the input and position 1..total in input order;
\* on_error for a descriptor comes after its on_progress and before the
\* on_progress of the next.
C21_ProgressOncePerDescriptor ==
  /\ BatchTypes = ExpectedBatchTypes
  /\ ProgressCalls = ExpectedProgress(Len(ProgressCalls))
  /\ BatchEnded => ProgressCalls = ExpectedProgress(Len(d_files))

EmptyHistory == hist_ret.kind = "return" /\ hist_ret.value = <<>>
\* some attachment of the messages fetched passes the configured filter
SomeAttachmentWanted ==
  \E m \in 1..Len(messages) : \E a \in 1..Len(messages[m].files) :
     \/ config.file_types = <<>>
     \/ \E k \in 1..Len(config.file_types) :
          messages[m].files[a].filetype = config.file_types[k]

\* C22: after a history fetch that returned no messages the run ends with
\* no users.list request, no export file and no download request; and in
\* every run a download request is made only when the download flag is set
\* and some attachment passed the extraction.
C22_NothingAfterEmptyHistory ==
  /\ EmptyHistory =>
       /\ pc \in {"history", "done"}
       /\ pc = "done" => outcome = "no_messages"
       /\ UsersRequests = <<>> /\ users_ret = Idle
       /\ ExportEvents = <<>> /\ ~JsonWritten /\ ~ExcelWritten
       /\ DownloadRequests = <<>> /\ EventsOf({"download_progress"}) = <<>>
  /\ DownloadRequests # <<>> =>
       /\ config.download_files
       /\ SomeAttachmentWanted
       /\ files # <<>>

\* a run that ended after a history of one empty page
C22_Witness ==
  /\ pc = "done"
  /\ outcome = "no_messages"
  /\ Len(served) >= 1
  /\ EmptyHistory
  /\ config.download_files

\* runs that made no download request although messages were exported:
\* the flag is off, or the filter left nothing
C22_WitnessFlagOff ==
  /\ pc = "done" /\ outcome = "ok"
  /\ ~config.download_files
  /\ \E m \in 1..Len(messages) : messages[m].files # <<>>
C22_WitnessFiltered ==
  /\ pc = "done" /\ outcome = "ok"
  /\ config.download_files
  /\ \E m \in 1..Len(messages) : messages[m].files # <<>>
  /\ ~SomeAttachmentWanted
C22_WitnessDownload ==
  /\ DownloadRequests # <<>>
  /\ config.file_types # <<>>

====
